---- MODULE Spec2Model ----
(***************************************************************************)
(* State-machine model of the logistics data extractor front-end:          *)
(*   App            (frontend/src/App.tsx)                                 *)
(*   FileUpload     (frontend/src/components/FileUpload.tsx)               *)
(*   DocViewer      (frontend/src/components/DocViewer.tsx)                *)
(*   ExtractionForm (frontend/src/components/ExtractionForm.tsx)           *)
(* One action per event handler, effect or asynchronous completion.  A     *)
(* handler, the render it causes and the effects of that render run to     *)
(* completion before the next event is taken (React flushes the effects of *)
(* a discrete event synchronously), so each is one step.  window.alert     *)
(* blocks the event loop: while an alert is open only DismissAlert runs.   *)
(***************************************************************************)
EXTENDS Integers, Sequences, FiniteSets, TLC

(* ------------------------------ bounds -------------------------------- *)
\* most files in one selection
MaxFiles == 3
\* most pages a PDF reports
MaxPages == 3
\* most user edits of the form since its values were last (re)set
MaxEdits == 1
\* most save requests unsettled at once
MaxSaveReqs == 2
\* most auto-reset timers pending at once
MaxTimers == 2
\* deployments run one after the other
MaxDeployments == 2

(* --------------------------- values -------------------------------- *)
\* null as the value of a form field or of an origin
NULL == "null"
\* the value of an input nobody has filled
EMPTY == ""
\* files[i] beyond the end of the list
UNDEFINED == <<>>
\* null as the Extracted Record, as the parsed rows, as the object URL
NullData == <<>>
NullRows == <<>>
NullUrl == 0

\* A file name is a sequence of characters; a File is identified by its name.
FilePool ==
  << <<"A", ".", "P", "D", "F">>,
     <<"b", ".", "x", "l", "s", "x">>,
     <<"c", ".", "X", "L", "S">>,
     <<"n", ".", "p", "d", "f", ".", "t", "x", "t">> >>

RECURSIVE PickFiles(_, _)
PickFiles(S, i) ==
  IF i > Len(FilePool) THEN <<>>
  ELSE (IF i \in S THEN <<FilePool[i]>> ELSE <<>>) \o PickFiles(S, i + 1)

\* The file lists a drop or a file-picker change can deliver.
Selections ==
  { PickFiles(S, 1) : S \in { T \in SUBSET (1..Len(FilePool)) : Cardinality(T) <= MaxFiles } }

(* ----------------------- String.prototype -------------------------- *)
LowerChar(c) ==
  CASE c = "A" -> "a" [] c = "P" -> "p" [] c = "D" -> "d" [] c = "F" -> "f"
    [] c = "X" -> "x" [] c = "L" -> "l" [] c = "S" -> "s" [] OTHER -> c

toLowerCase(s) == [i \in 1..Len(s) |-> LowerChar(s[i])]

endsWith(s, suffix) ==
  /\ Len(suffix) <= Len(s)
  /\ SubSeq(s, Len(s) - Len(suffix) + 1, Len(s)) = suffix

DotPdf == <<".", "p", "d", "f">>
DotXlsx == <<".", "x", "l", "s", "x">>
DotXls == <<".", "x", "l", "s">>

(* ------------------------- ShipmentData ---------------------------- *)
Fields ==
  { "bill_of_lading_number", "container_number", "consignee_name", "consignee_address",
    "date_of_export", "line_items_count", "total_gross_weight", "total_invoice_amount",
    "average_gross_weight", "average_price" }

\* Response bodies of POST /process-documents: every key present, each nullable.
\* A JSON number is written as its numeral.  The averages are the server's; "50"
\* and "20" differ from 400/4 and 100/4.
Response(bol, avgW, avgP) ==
  [ k \in Fields |->
      CASE k = "bill_of_lading_number" -> bol
        [] k = "container_number" -> "MSKU1"
        [] k = "consignee_name" -> "ACME"
        [] k = "consignee_address" -> NULL
        [] k = "date_of_export" -> "2024-01-01"
        [] k = "line_items_count" -> "4"
        [] k = "total_gross_weight" -> "400"
        [] k = "total_invoice_amount" -> "100"
        [] k = "average_gross_weight" -> avgW
        [] k = "average_price" -> avgP ]

Responses ==
  { Response("BOL123", "100", "25"), Response(NULL, "50", NULL) }

\* What a user can type into a field (inputs hold strings).
EditValues == { EMPTY, "7" }

\* Deployment-time API origins (VITE_API_URL, or the default of main.tsx).
Origins == { "http://localhost:8080", "https://api.example.com" }

(* ------------------------------ state --------------------------------- *)
VARIABLES
  \* App (useState)
  files, activeFileIndex, data, isLoading,
  \* main.tsx: axios.defaults.baseURL
  baseURL,
  \* browser: the open window.alert ("none" when there is none)
  alert,
  \* network: unsettled POST /process-documents requests
  extractReqs,
  \* DocViewer (useState), the cleanup its effect returned, and the PDF whose
  \* load the <Document> element has started and not finished
  numPages, pageNumber, fileUrl, excelData, cleanup, docLoading,
  \* browser: FileReaders still reading, unreleased object URLs
  readers, objectUrls,
  \* ExtractionForm: useForm values, edits since they were last set, useState
  form, nEdits, saveStatus,
  \* network / timers of ExtractionForm: unsettled POST /save-shipment requests,
  \* pending setTimeout callbacks of the mounted form and of torn-down forms
  saveReqs, timers, orphanTimers,
  \* browser: name of the last file handed to the download manager
  download,
  \* browser: content written by the last export of the form now open (<<>> when
  \* it has exported nothing)
  exported,
  \* Cloud Run: per service the revisions created, the one receiving traffic (0:
  \* none) and whether traffic was set to a named revision; the deployment
  \* that last set ALLOWED_ORIGINS (0: none)
  cloud,
  \* deployment script: the run in progress
  run

shellVars == <<files, activeFileIndex, data, isLoading>>
viewerVars == <<numPages, pageNumber, fileUrl, excelData, cleanup, docLoading, readers, objectUrls>>
formVars == <<form, nEdits, saveStatus, saveReqs, timers, orphanTimers, download, exported>>
deployVars == <<baseURL, cloud, run>>
appVars == <<shellVars, baseURL, alert, extractReqs, viewerVars, formVars>>
vars == <<shellVars, deployVars, alert, extractReqs, viewerVars, formVars>>

ValidationAlert == "Please upload both a PDF (Bill of Lading) and an Excel file (Packing List/Invoice) to proceed."
ExtractionAlert == "Failed to extract data. Please check the console for details."

(* ------------------------------ axios --------------------------------- *)
\* A request target as written in the code: an absolute URL carries its own
\* origin, a relative one has none.
ExtractTarget == [origin |-> "http://localhost:8000", path |-> "/process-documents"]
SaveTarget == [origin |-> NULL, path |-> "/save-shipment"]

\* axios combines baseURL with relative URLs only.
RequestUrl(base, target) ==
  IF target.origin # NULL THEN target ELSE [origin |-> base, path |-> target.path]

(* ------------------------------- App ---------------------------------- *)
hasPdf(selectedFiles) ==
  \E i \in 1..Len(selectedFiles) : endsWith(toLowerCase(selectedFiles[i]), DotPdf)

hasExcel(selectedFiles) ==
  \E i \in 1..Len(selectedFiles) :
    \/ endsWith(toLowerCase(selectedFiles[i]), DotXlsx)
    \/ endsWith(toLowerCase(selectedFiles[i]), DotXls)

\* variant: rejects only a selection that has neither kind
RejectedIfNeither(selectedFiles) == ~hasPdf(selectedFiles) /\ ~hasExcel(selectedFiles)

Rejected(selectedFiles) == ~hasPdf(selectedFiles) \/ ~hasExcel(selectedFiles)

\* files[activeFileIndex], with JavaScript's 0-based index
FileAt(fs, index) == IF index < Len(fs) THEN fs[index + 1] ELSE UNDEFINED
activeFile == FileAt(files, activeFileIndex)

\* what App renders
IntakeShown == Len(files) = 0
PanelsShown == Len(files) > 0
ResetShown == Len(files) > 0
\* variant: the button stays usable while loading
ResetAlwaysEnabled == FALSE

ResetDisabled == isLoading

(* ----------------------------- DocViewer ------------------------------ *)
isPdf(file) == file # UNDEFINED /\ endsWith(toLowerCase(file), DotPdf)
isExcel(file) ==
  /\ file # UNDEFINED
  /\ endsWith(toLowerCase(file), DotXlsx) \/ endsWith(toLowerCase(file), DotXls)

\* URL.createObjectURL: a URL no unreleased URL equals (URLs are numbered from 1)
FreshUrl(urls) == CHOOSE u \in 1..(Cardinality(urls) + 1) : u \notin urls

\* rows parsed from a spreadsheet file: identified by the file they came from
SheetRows(file) == <<"rows", file>>

\* State of a DocViewer that has just been created.
ViewerInit ==
  [numPages |-> 0, pageNumber |-> 1, fileUrl |-> NullUrl, excelData |-> NullRows,
   cleanup |-> NullUrl, docLoading |-> NullUrl]

\* variant: setPageNumber(1) left out of the reset
RunEffectKeepsPage(v, urls, rs, file) ==
  LET released == urls \ {v.cleanup}
      url == FreshUrl(released)
  IN  IF file = UNDEFINED THEN
        [v |-> [v EXCEPT !.cleanup = NullUrl], urls |-> released, rs |-> rs]
      ELSE IF endsWith(toLowerCase(file), DotPdf) THEN
        [v |-> [numPages |-> 0, pageNumber |-> v.pageNumber, fileUrl |-> url,
                excelData |-> NullRows, cleanup |-> url, docLoading |-> url],
         urls |-> released \cup {url}, rs |-> rs]
      ELSE IF endsWith(toLowerCase(file), DotXlsx) \/ endsWith(toLowerCase(file), DotXls) THEN
        [v |-> [numPages |-> 0, pageNumber |-> v.pageNumber, fileUrl |-> NullUrl,
                excelData |-> NullRows, cleanup |-> NullUrl, docLoading |-> NullUrl],
         urls |-> released, rs |-> rs \cup {file}]
      ELSE
        [v |-> [numPages |-> 0, pageNumber |-> v.pageNumber, fileUrl |-> NullUrl,
                excelData |-> NullRows, cleanup |-> NullUrl, docLoading |-> NullUrl],
         urls |-> released, rs |-> rs]

\* variant: the effect returns no cleanup for the URL it created
RunEffectNoRevoke(v, urls, rs, file) ==
  LET url == FreshUrl(urls)
  IN  IF file = UNDEFINED THEN
        [v |-> [v EXCEPT !.cleanup = NullUrl], urls |-> urls, rs |-> rs]
      ELSE IF endsWith(toLowerCase(file), DotPdf) THEN
        [v |-> [numPages |-> 0, pageNumber |-> 1, fileUrl |-> url, excelData |-> NullRows,
                cleanup |-> NullUrl, docLoading |-> url],
         urls |-> urls \cup {url}, rs |-> rs]
      ELSE IF endsWith(toLowerCase(file), DotXlsx) \/ endsWith(toLowerCase(file), DotXls) THEN
        [v |-> [numPages |-> 0, pageNumber |-> 1, fileUrl |-> NullUrl, excelData |-> NullRows,
                cleanup |-> NullUrl, docLoading |-> NullUrl],
         urls |-> urls, rs |-> rs \cup {file}]
      ELSE
        [v |-> [numPages |-> 0, pageNumber |-> 1, fileUrl |-> NullUrl, excelData |-> NullRows,
                cleanup |-> NullUrl, docLoading |-> NullUrl],
         urls |-> urls, rs |-> rs]

\* The useEffect on [activeFile], run for the file that became active, on viewer
\* state v with unreleased URLs urls and running readers rs.  The cleanup of the
\* previous run goes first.
RunEffect(v, urls, rs, file) ==
  LET released == urls \ {v.cleanup}
      url == FreshUrl(released)
  IN  IF file = UNDEFINED THEN
        [v |-> [v EXCEPT !.cleanup = NullUrl], urls |-> released, rs |-> rs]
      ELSE IF endsWith(toLowerCase(file), DotPdf) THEN
        [v |-> [numPages |-> 0, pageNumber |-> 1, fileUrl |-> url, excelData |-> NullRows,
                cleanup |-> url, docLoading |-> url],
         urls |-> released \cup {url}, rs |-> rs]
      ELSE IF endsWith(toLowerCase(file), DotXlsx) \/ endsWith(toLowerCase(file), DotXls) THEN
        [v |-> [numPages |-> 0, pageNumber |-> 1, fileUrl |-> NullUrl, excelData |-> NullRows,
                cleanup |-> NullUrl, docLoading |-> NullUrl],
         urls |-> released, rs |-> rs \cup {file}]
      ELSE
        [v |-> [numPages |-> 0, pageNumber |-> 1, fileUrl |-> NullUrl, excelData |-> NullRows,
                cleanup |-> NullUrl, docLoading |-> NullUrl],
         urls |-> released, rs |-> rs]

ViewerState ==
  [numPages |-> numPages, pageNumber |-> pageNumber, fileUrl |-> fileUrl,
   excelData |-> excelData, cleanup |-> cleanup, docLoading |-> docLoading]

SetViewer(r) ==
  /\ numPages' = r.v.numPages
  /\ pageNumber' = r.v.pageNumber
  /\ fileUrl' = r.v.fileUrl
  /\ excelData' = r.v.excelData
  /\ cleanup' = r.v.cleanup
  /\ docLoading' = r.v.docLoading
  /\ objectUrls' = r.urls
  /\ readers' = r.rs

\* DocViewer after App rendered with file list fs and index idx (before: files,
\* activeFileIndex): created, removed, or kept with its effect re-run when the
\* active file is another one.  The onload of a reader whose viewer was removed
\* sets state of no mounted component; such readers are dropped.
RenderViewer(fs, idx) ==
  IF Len(fs) = 0 THEN
    IF Len(files) = 0 THEN UNCHANGED viewerVars
    ELSE SetViewer([v |-> ViewerInit,
                    urls |-> objectUrls \ {cleanup},
                    rs |-> {}])
  ELSE IF Len(files) = 0 THEN SetViewer(RunEffect(ViewerInit, objectUrls, {}, FileAt(fs, idx)))
  ELSE IF FileAt(fs, idx) # activeFile THEN
    SetViewer(RunEffect(ViewerState, objectUrls, readers, FileAt(fs, idx)))
  ELSE UNCHANGED viewerVars

(* --------------------------- ExtractionForm --------------------------- *)
\* useForm() without default values: every registered input is empty.
EmptyForm == [k \in Fields |-> EMPTY]

\* variant: the average weight is recomputed from total and count (400 / 4)
PopulateRecomputed(values, d) ==
  IF d = NullData THEN values
  ELSE [k \in Fields |->
          IF k = "average_gross_weight"
             /\ d["total_gross_weight"] = "400" /\ d["line_items_count"] = "4"
          THEN "100"
          ELSE IF k \in DOMAIN d THEN d[k] ELSE values[k]]

\* The useEffect on [data]: setValue(k, data[k]) for every key of a non-null data.
Populate(values, d) ==
  IF d = NullData THEN values
  ELSE [k \in Fields |-> IF k \in DOMAIN d THEN d[k] ELSE values[k]]

\* A user's change of one input.
SetField(values, k, v) == [values EXCEPT ![k] = v]

\* JSON.stringify of the form values: per key the JSON text of its value, null
\* for null and the quoted string for a string.
stringify(values) ==
  [k \in Fields |-> IF values[k] = NULL THEN "null" ELSE "\"" \o values[k] \o "\""]

\* variant: ?? in place of ||, only null falls back to "export"
DownloadNameNullish(values) ==
  "shipment_data_"
    \o (IF values["bill_of_lading_number"] = NULL
        THEN "export" ELSE values["bill_of_lading_number"])
    \o ".json"

\* link.download of handleDownload: null and "" are falsy.
DownloadName(values) ==
  "shipment_data_"
    \o (IF values["bill_of_lading_number"] \in {NULL, EMPTY}
        THEN "export" ELSE values["bill_of_lading_number"])
    \o ".json"

\* variant: the control is re-enabled right after success
SaveDisabledWhileSaving == saveStatus = "saving"

SaveDisabled == saveStatus = "saving" \/ saveStatus = "success"

Orphaned(reqs) == [i \in 1..Len(reqs) |-> [reqs[i] EXCEPT !.live = FALSE]]

Remove(seq, i) == SubSeq(seq, 1, i - 1) \o SubSeq(seq, i + 1, Len(seq))

\* variant: removing the form clears its timers (a cleanup with clearTimeout)
RenderFormCancelling(fs, d) ==
  IF Len(fs) = 0 THEN
    IF Len(files) = 0 THEN UNCHANGED formVars
    ELSE /\ form' = EmptyForm
         /\ nEdits' = 0
         /\ saveStatus' = "idle"
         /\ saveReqs' = Orphaned(saveReqs)
         /\ timers' = 0
         /\ exported' = <<>>
         /\ UNCHANGED <<orphanTimers, download>>
  ELSE IF Len(files) = 0 THEN
    /\ form' = Populate(EmptyForm, d)
    /\ nEdits' = 0
    /\ saveStatus' = "idle"
    /\ UNCHANGED <<saveReqs, timers, orphanTimers, download, exported>>
  ELSE IF d # data THEN
    /\ form' = Populate(form, d)
    /\ nEdits' = IF d = NullData THEN nEdits ELSE 0
    /\ UNCHANGED <<saveStatus, saveReqs, timers, orphanTimers, download, exported>>
  ELSE UNCHANGED formVars

\* ExtractionForm after App rendered with file list fs and data d: created,
\* removed (its unsettled requests and timers stay, bound to the removed
\* instance), or kept with its effect re-run when data is another value.
RenderForm(fs, d) ==
  IF Len(fs) = 0 THEN
    IF Len(files) = 0 THEN UNCHANGED formVars
    ELSE /\ form' = EmptyForm
         /\ nEdits' = 0
         /\ saveStatus' = "idle"
         /\ saveReqs' = Orphaned(saveReqs)
         /\ orphanTimers' = orphanTimers + timers
         /\ timers' = 0
         /\ exported' = <<>>
         /\ UNCHANGED download
  ELSE IF Len(files) = 0 THEN
    /\ form' = Populate(EmptyForm, d)
    /\ nEdits' = 0
    /\ saveStatus' = "idle"
    /\ UNCHANGED <<saveReqs, timers, orphanTimers, download, exported>>
  ELSE IF d # data THEN
    /\ form' = Populate(form, d)
    /\ nEdits' = IF d = NullData THEN nEdits ELSE 0
    /\ UNCHANGED <<saveStatus, saveReqs, timers, orphanTimers, download, exported>>
  ELSE UNCHANGED formVars

(* ------------------------- deployment script -------------------------- *)
Services == { "backend", "frontend" }

\* `for i in {1..10}` of both health checks
HealthAttempts == 10

\* What a revision turns out to be: "failed" never became ready (gcloud run
\* deploy returns an error), "unhealthy" is ready and does not answer /health,
\* "healthy" answers it (not necessarily at once).
RevisionKinds == { "healthy", "unhealthy", "failed" }

\* Cloud Run before the first deployment.
CloudInit ==
  [revisions |-> [s \in Services |-> <<>>],
   traffic |-> [s \in Services |-> 0],
   pinned |-> [s \in Services |-> FALSE],
   cors |-> 0]

\* No run of the script yet.  previous: PREVIOUS_BACKEND / PREVIOUS_FRONTEND (0
\* for the empty string); serving: the revisions that received traffic when
\* the run began (kept for the properties, the script does not read it).
RunInit ==
  [pc |-> "exited", svc |-> "backend", n |-> 0, status |-> 0,
   previous |-> [s \in Services |-> 0],
   serving |-> [s \in Services |-> 0],
   attempt |-> 0, healthOk |-> FALSE]

\* gcloud run revisions list --sort-by="~creationTimestamp" --limit=1: the
\* revision created last, whatever it serves or whether it ever became ready.
LatestRevision(s) == Len(cloud.revisions[s])

\* the service that is deployed after s
LaterService(s) == IF s = "backend" THEN "frontend" ELSE "none"

(* ------------------------------ actions ------------------------------- *)
Init ==
  /\ files = <<>>
  /\ activeFileIndex = 0
  /\ data = NullData
  /\ isLoading = FALSE
  /\ baseURL \in Origins
  /\ alert = "none"
  /\ extractReqs = <<>>
  /\ numPages = 0
  /\ pageNumber = 1
  /\ fileUrl = NullUrl
  /\ excelData = NullRows
  /\ cleanup = NullUrl
  /\ docLoading = NullUrl
  /\ readers = {}
  /\ objectUrls = {}
  /\ form = EmptyForm
  /\ nEdits = 0
  /\ saveStatus = "idle"
  /\ saveReqs = <<>>
  /\ timers = 0
  /\ orphanTimers = 0
  /\ download = EMPTY
  /\ exported = <<>>
  /\ cloud = CloudInit
  /\ run = RunInit

\* variant: setIsLoading(true) left out
SubmitStateNotLoading(selectedFiles) ==
  [files |-> selectedFiles, isLoading |-> FALSE, data |-> NullData]

\* variant: setData(null) left out
SubmitStateKeepsData(selectedFiles) ==
  [files |-> selectedFiles, isLoading |-> TRUE, data |-> data]

\* App state set by an accepted submission (setFiles, setIsLoading, setData).
SubmitState(selectedFiles) ==
  [files |-> selectedFiles, isLoading |-> TRUE, data |-> NullData]

\* App.handleFilesSelected up to its await.
handleFilesSelected(selectedFiles) ==
  IF Rejected(selectedFiles) THEN
    /\ alert' = ValidationAlert
    /\ UNCHANGED <<shellVars, deployVars, extractReqs, viewerVars, formVars>>
  ELSE
    LET next == SubmitState(selectedFiles) IN
    /\ files' = next.files
    /\ isLoading' = next.isLoading
    /\ data' = next.data
    /\ extractReqs' = Append(extractReqs,
                             [url |-> RequestUrl(baseURL, ExtractTarget), files |-> selectedFiles])
    /\ RenderViewer(next.files, activeFileIndex)
    /\ RenderForm(next.files, next.data)
    /\ UNCHANGED <<activeFileIndex, deployVars, alert>>

\* FileUpload.handleDrop
handleDrop(droppedFiles) ==
  /\ alert = "none"
  /\ IntakeShown
  /\ ~isLoading
  /\ handleFilesSelected(droppedFiles)

\* FileUpload.handleChange
handleChange(selectedFiles) ==
  /\ alert = "none"
  /\ IntakeShown
  /\ ~isLoading
  /\ handleFilesSelected(selectedFiles)

\* variant: no finally block after the try
ExtractionSucceedsStillLoading(i, r) ==
  /\ alert = "none"
  /\ i \in 1..Len(extractReqs)
  /\ extractReqs' = Remove(extractReqs, i)
  /\ data' = r
  /\ RenderViewer(files, activeFileIndex)
  /\ RenderForm(files, r)
  /\ UNCHANGED <<files, activeFileIndex, isLoading, deployVars, alert>>

\* variant: only the non-null fields of the body are taken over
ExtractionSucceedsPartial(i, r) ==
  LET d == [k \in Fields |-> IF r[k] = NULL THEN EMPTY ELSE r[k]] IN
  /\ alert = "none"
  /\ i \in 1..Len(extractReqs)
  /\ extractReqs' = Remove(extractReqs, i)
  /\ data' = d
  /\ isLoading' = FALSE
  /\ RenderViewer(files, activeFileIndex)
  /\ RenderForm(files, d)
  /\ UNCHANGED <<files, activeFileIndex, deployVars, alert>>

\* handleFilesSelected after its await, request i answered with body r.
ExtractionSucceeds(i, r) ==
  /\ alert = "none"
  /\ i \in 1..Len(extractReqs)
  /\ extractReqs' = Remove(extractReqs, i)
  /\ data' = r
  /\ isLoading' = FALSE
  /\ RenderViewer(files, activeFileIndex)
  /\ RenderForm(files, r)
  /\ UNCHANGED <<files, activeFileIndex, deployVars, alert>>

\* variant: the catch block only logs
ExtractionFailsSilently(i) ==
  /\ alert = "none"
  /\ i \in 1..Len(extractReqs)
  /\ extractReqs' = Remove(extractReqs, i)
  /\ isLoading' = FALSE
  /\ UNCHANGED <<files, activeFileIndex, data, deployVars, alert, viewerVars, formVars>>

\* handleFilesSelected after its await, request i failed: the catch block up to
\* its alert.
ExtractionFails(i) ==
  /\ alert = "none"
  /\ i \in 1..Len(extractReqs)
  /\ extractReqs' = Remove(extractReqs, i)
  /\ alert' = ExtractionAlert
  /\ UNCHANGED <<shellVars, deployVars, viewerVars, formVars>>

\* variant: no finally block
LoadingKeptAfterAlert(message) == isLoading

\* isLoading once the handler that opened the alert has gone on: the validation
\* branch returns, the catch block falls into finally { setIsLoading(false) }.
LoadingAfterAlert(message) == IF message = ExtractionAlert THEN FALSE ELSE isLoading

\* The user closes the alert and the handler that opened it goes on.
DismissAlert ==
  /\ alert # "none"
  /\ alert' = "none"
  /\ isLoading' = LoadingAfterAlert(alert)
  /\ UNCHANGED <<files, activeFileIndex, data, deployVars, extractReqs, viewerVars, formVars>>

\* onClick of Reset / New Upload
ResetClick ==
  /\ alert = "none"
  /\ ResetShown
  /\ ~ResetDisabled
  /\ files' = <<>>
  /\ RenderViewer(<<>>, activeFileIndex)
  /\ RenderForm(<<>>, data)
  /\ UNCHANGED <<activeFileIndex, data, isLoading, deployVars, alert, extractReqs>>

\* what DocViewer renders
TabsShown == PanelsShown /\ activeFile # UNDEFINED
DocumentShown == TabsShown /\ isPdf(activeFile) /\ fileUrl # NullUrl
PageControlsShown == DocumentShown /\ numPages > 1
PrevDisabled == pageNumber <= 1
\* variant: the forward control stays enabled on the last page
NextDisabledPastEnd == pageNumber > numPages
NextDisabled == pageNumber >= numPages
TableShown == TabsShown /\ ~DocumentShown /\ isExcel(activeFile) /\ excelData # NullRows
PlaceholderShown == TabsShown /\ ~DocumentShown /\ ~TableShown

\* onClick of tab index
TabClick(index) ==
  /\ alert = "none"
  /\ TabsShown
  /\ index \in 0..(Len(files) - 1)
  /\ activeFileIndex' = index
  /\ RenderViewer(files, index)
  /\ UNCHANGED <<files, data, isLoading, deployVars, alert, extractReqs, formVars>>

PrevPageClick ==
  /\ alert = "none"
  /\ PageControlsShown
  /\ ~PrevDisabled
  /\ pageNumber' = pageNumber - 1
  /\ UNCHANGED <<shellVars, deployVars, alert, extractReqs, formVars,
                 numPages, fileUrl, excelData, cleanup, docLoading, readers, objectUrls>>

NextPageClick ==
  /\ alert = "none"
  /\ PageControlsShown
  /\ ~NextDisabled
  /\ pageNumber' = pageNumber + 1
  /\ UNCHANGED <<shellVars, deployVars, alert, extractReqs, formVars,
                 numPages, fileUrl, excelData, cleanup, docLoading, readers, objectUrls>>

\* <Document> finished loading the PDF at fileUrl, which has n pages.
onDocumentLoadSuccess(n) ==
  /\ alert = "none"
  /\ DocumentShown
  /\ docLoading = fileUrl
  /\ numPages' = n
  /\ docLoading' = NullUrl
  /\ UNCHANGED <<shellVars, deployVars, alert, extractReqs, formVars,
                 pageNumber, fileUrl, excelData, cleanup, readers, objectUrls>>

\* variant: onload drops the rows of a file that is no longer the active one
ReaderOnloadGuarded(file) ==
  /\ alert = "none"
  /\ file \in readers
  /\ excelData' = IF file = activeFile THEN SheetRows(file) ELSE excelData
  /\ readers' = readers \ {file}
  /\ UNCHANGED <<shellVars, deployVars, alert, extractReqs, formVars,
                 numPages, pageNumber, fileUrl, cleanup, docLoading, objectUrls>>

\* reader.onload of the FileReader started for file
ReaderOnload(file) ==
  /\ alert = "none"
  /\ file \in readers
  /\ excelData' = SheetRows(file)
  /\ readers' = readers \ {file}
  /\ UNCHANGED <<shellVars, deployVars, alert, extractReqs, formVars,
                 numPages, pageNumber, fileUrl, cleanup, docLoading, objectUrls>>

\* The user changes input k to v.
EditField(k, v) ==
  /\ alert = "none"
  /\ PanelsShown
  /\ nEdits < MaxEdits
  /\ form[k] # v
  /\ form' = SetField(form, k, v)
  /\ nEdits' = nEdits + 1
  /\ UNCHANGED <<shellVars, deployVars, alert, extractReqs, viewerVars,
                 saveStatus, saveReqs, timers, orphanTimers, download, exported>>

\* ExtractionForm.handleDownload (its object URL is created and revoked inside)
handleDownload ==
  /\ alert = "none"
  /\ PanelsShown
  /\ download' = DownloadName(form)
  /\ exported' = stringify(form)
  /\ UNCHANGED <<shellVars, deployVars, alert, extractReqs, viewerVars,
                 form, nEdits, saveStatus, saveReqs, timers, orphanTimers>>

\* variant: the record received is sent, not the values of the form
handleSaveToBackendSendsData ==
  /\ alert = "none"
  /\ PanelsShown
  /\ ~SaveDisabled
  /\ Len(saveReqs) < MaxSaveReqs
  /\ saveStatus' = "saving"
  /\ saveReqs' = Append(saveReqs,
                        [url |-> RequestUrl(baseURL, SaveTarget),
                         payload |-> IF data = NullData THEN form ELSE data, live |-> TRUE])
  /\ UNCHANGED <<shellVars, deployVars, alert, extractReqs, viewerVars,
                 form, nEdits, timers, orphanTimers, download, exported>>

\* ExtractionForm.handleSaveToBackend up to its await
handleSaveToBackend ==
  /\ alert = "none"
  /\ PanelsShown
  /\ ~SaveDisabled
  /\ Len(saveReqs) < MaxSaveReqs
  /\ saveStatus' = "saving"
  /\ saveReqs' = Append(saveReqs,
                        [url |-> RequestUrl(baseURL, SaveTarget), payload |-> form, live |-> TRUE])
  /\ UNCHANGED <<shellVars, deployVars, alert, extractReqs, viewerVars,
                 form, nEdits, timers, orphanTimers, download, exported>>

\* variant: the catch block raises an alert, as the one of App does
SaveSettlesAlerting(i, status) ==
  /\ alert = "none"
  /\ i \in 1..Len(saveReqs)
  /\ timers + orphanTimers < MaxTimers
  /\ saveReqs' = Remove(saveReqs, i)
  /\ IF saveReqs[i].live
     THEN saveStatus' = status /\ timers' = timers + 1 /\ UNCHANGED orphanTimers
     ELSE orphanTimers' = orphanTimers + 1 /\ UNCHANGED <<saveStatus, timers>>
  /\ alert' = IF status = "error" THEN ExtractionAlert ELSE alert
  /\ UNCHANGED <<shellVars, deployVars, extractReqs, viewerVars, form, nEdits, download, exported>>

\* variant: the catch block sends the request again
SaveSettlesRetrying(i, status) ==
  /\ alert = "none"
  /\ i \in 1..Len(saveReqs)
  /\ timers + orphanTimers < MaxTimers
  /\ saveReqs' = IF status = "error" THEN Append(Remove(saveReqs, i), saveReqs[i])
                 ELSE Remove(saveReqs, i)
  /\ IF saveReqs[i].live
     THEN saveStatus' = status /\ timers' = timers + 1 /\ UNCHANGED orphanTimers
     ELSE orphanTimers' = orphanTimers + 1 /\ UNCHANGED <<saveStatus, timers>>
  /\ UNCHANGED <<shellVars, deployVars, alert, extractReqs, viewerVars, form, nEdits, download, exported>>

\* handleSaveToBackend after its await, request i settled with status
\* ("success" in the try block, "error" in the catch block): setSaveStatus and
\* setTimeout.  A setter of a removed form changes nothing; its timer still runs.
SaveSettles(i, status) ==
  /\ alert = "none"
  /\ i \in 1..Len(saveReqs)
  /\ timers + orphanTimers < MaxTimers
  /\ saveReqs' = Remove(saveReqs, i)
  /\ IF saveReqs[i].live
     THEN saveStatus' = status /\ timers' = timers + 1 /\ UNCHANGED orphanTimers
     ELSE orphanTimers' = orphanTimers + 1 /\ UNCHANGED <<saveStatus, timers>>
  /\ UNCHANGED <<shellVars, deployVars, alert, extractReqs, viewerVars, form, nEdits, download, exported>>

SaveSucceeds(i) == SaveSettles(i, "success")
SaveFails(i) == SaveSettles(i, "error")

\* variant: the timer callback leaves the status alone
TimerFiresNoReset ==
  /\ alert = "none"
  /\ timers > 0
  /\ timers' = timers - 1
  /\ UNCHANGED <<shellVars, deployVars, alert, extractReqs, viewerVars,
                 form, nEdits, saveStatus, saveReqs, orphanTimers, download, exported>>

\* () => setSaveStatus('idle') of a pending timer of the mounted form
TimerFires ==
  /\ alert = "none"
  /\ timers > 0
  /\ timers' = timers - 1
  /\ saveStatus' = "idle"
  /\ UNCHANGED <<shellVars, deployVars, alert, extractReqs, viewerVars,
                 form, nEdits, saveReqs, orphanTimers, download, exported>>

\* the same callback of a timer whose form was removed
OrphanTimerFires ==
  /\ alert = "none"
  /\ orphanTimers > 0
  /\ orphanTimers' = orphanTimers - 1
  /\ UNCHANGED <<shellVars, deployVars, alert, extractReqs, viewerVars,
                 form, nEdits, saveStatus, saveReqs, timers, download, exported>>

\* Shell and preview: the form is only populated.
Next ==
  \/ \E s \in Selections : handleDrop(s)
  \/ \E s \in Selections : handleChange(s)
  \/ \E i \in 1..Len(extractReqs), r \in Responses : ExtractionSucceeds(i, r)
  \/ \E i \in 1..Len(extractReqs) : ExtractionFails(i)
  \/ DismissAlert
  \/ ResetClick
  \/ \E index \in 0..(MaxFiles - 1) : TabClick(index)
  \/ PrevPageClick
  \/ NextPageClick
  \/ \E n \in 1..MaxPages : onDocumentLoadSuccess(n)
  \/ \E f \in readers : ReaderOnload(f)

Spec == Init /\ [][Next]_vars

\* Shell and form editing: the preview stays on the file it opened with and
\* nothing is saved.
FormNext ==
  \/ \E s \in Selections : handleDrop(s)
  \/ \E s \in Selections : handleChange(s)
  \/ \E i \in 1..Len(extractReqs), r \in Responses : ExtractionSucceeds(i, r)
  \/ \E i \in 1..Len(extractReqs) : ExtractionFails(i)
  \/ DismissAlert
  \/ ResetClick
  \/ \E k \in Fields, v \in EditValues : EditField(k, v)
  \/ handleDownload

FormSpec == Init /\ [][FormNext]_vars

\* Shell and remote save: the form holds what extraction put into it.
SaveNext ==
  \/ \E s \in Selections : handleDrop(s)
  \/ \E s \in Selections : handleChange(s)
  \/ \E i \in 1..Len(extractReqs), r \in Responses : ExtractionSucceeds(i, r)
  \/ \E i \in 1..Len(extractReqs) : ExtractionFails(i)
  \/ DismissAlert
  \/ ResetClick
  \/ handleSaveToBackend
  \/ \E i \in 1..Len(saveReqs) : SaveSucceeds(i)
  \/ \E i \in 1..Len(saveReqs) : SaveFails(i)
  \/ TimerFires
  \/ OrphanTimerFires

SaveSpec == Init /\ [][SaveNext]_vars

\* The inputs edited where edits meet saves: one the responses fill or leave
\* null, one they always leave null.
EditedFields == { "bill_of_lading_number", "consignee_address" }

\* One upload with the whole form: editing, export and the click on Save (the
\* panels stay open and the save requests stay unsettled).
EditSaveNext ==
  \/ \E s \in Selections : handleDrop(s)
  \/ \E s \in Selections : handleChange(s)
  \/ \E i \in 1..Len(extractReqs), r \in Responses : ExtractionSucceeds(i, r)
  \/ \E i \in 1..Len(extractReqs) : ExtractionFails(i)
  \/ DismissAlert
  \/ \E k \in EditedFields, v \in EditValues : EditField(k, v)
  \/ handleDownload
  \/ handleSaveToBackend

EditSaveSpec == Init /\ [][EditSaveNext]_vars

(* --------------------- deployment script: steps ----------------------- *)
\* The script is started: everything up to "Save current revisions".
SaveRevisions ==
  /\ run.pc = "exited"
  /\ run.n < MaxDeployments
  /\ run' = [pc |-> "deploy", svc |-> "backend", n |-> run.n + 1, status |-> 0,
             previous |-> [s \in Services |-> LatestRevision(s)],
             serving |-> cloud.traffic,
             attempt |-> 0, healthOk |-> FALSE]
  /\ UNCHANGED <<cloud, appVars>>

\* docker build / docker push of service s fails: set -e ends the script.
BuildFails(s) ==
  /\ run.pc = "deploy"
  /\ run.svc = s
  /\ run' = [run EXCEPT !.pc = "exited", !.status = 1]
  /\ UNCHANGED <<cloud, appVars>>

\* gcloud run deploy of service s, creating a revision of the given kind.  A
\* revision that becomes ready receives the traffic, unless traffic is set to a
\* named revision, where it may stay; for one that does not, the command fails
\* and set -e ends the script.
Deploy(s, kind, routed) ==
  /\ run.pc = "deploy"
  /\ run.svc = s
  /\ routed \/ cloud.pinned[s]
  /\ LET created == Len(cloud.revisions[s]) + 1 IN
     IF kind = "failed" THEN
       /\ routed
       /\ cloud' = [cloud EXCEPT !.revisions[s] = Append(@, kind)]
       /\ run' = [run EXCEPT !.pc = "exited", !.status = 1]
     ELSE
       /\ cloud' = [cloud EXCEPT !.revisions[s] = Append(@, kind),
                                 !.traffic[s] = IF routed THEN created ELSE @,
                                 !.pinned[s] = IF routed THEN FALSE ELSE @]
       /\ run' = [run EXCEPT !.pc = "health", !.attempt = 0, !.healthOk = FALSE]
  /\ UNCHANGED appVars

\* can the revision of s that receives traffic answer /health
Answers(s) ==
  /\ cloud.traffic[s] # 0
  /\ cloud.revisions[s][cloud.traffic[s]] = "healthy"

\* One pass of the health loop of s: curl answered (responded) or not.
HealthAttempt(s, responded) ==
  /\ run.pc = "health"
  /\ run.svc = s
  /\ ~run.healthOk
  /\ run.attempt < HealthAttempts
  /\ responded => Answers(s)
  /\ run' = [run EXCEPT !.attempt = @ + 1, !.healthOk = responded]
  /\ UNCHANGED <<cloud, appVars>>

\* variant: a failed check is only reported, as in the script without rollback
HealthFailedContinues(s) ==
  /\ run.pc = "health"
  /\ run.svc = s
  /\ ~run.healthOk
  /\ run.attempt = HealthAttempts
  /\ run' = IF LaterService(s) = "none"
            THEN [run EXCEPT !.pc = "cors"]
            ELSE [run EXCEPT !.pc = "deploy", !.svc = LaterService(s)]
  /\ UNCHANGED <<cloud, appVars>>

\* `if [ "$HEALTH_OK" != "true" ]` of s after the loop ran out: traffic goes to
\* the saved revision if there is one, and exit 1.
HealthFailed(s) ==
  /\ run.pc = "health"
  /\ run.svc = s
  /\ ~run.healthOk
  /\ run.attempt = HealthAttempts
  /\ cloud' = IF run.previous[s] # 0
              THEN [cloud EXCEPT !.traffic[s] = run.previous[s], !.pinned[s] = TRUE]
              ELSE cloud
  /\ run' = [run EXCEPT !.pc = "exited", !.status = 1]
  /\ UNCHANGED appVars

\* The check of s passed: the script goes on to the next service, or to CORS.
HealthPassed(s) ==
  /\ run.pc = "health"
  /\ run.svc = s
  /\ run.healthOk
  /\ run' = IF LaterService(s) = "none"
            THEN [run EXCEPT !.pc = "cors"]
            ELSE [run EXCEPT !.pc = "deploy", !.svc = LaterService(s)]
  /\ UNCHANGED <<cloud, appVars>>

\* gcloud run services update backend --update-env-vars=ALLOWED_ORIGINS, then
\* the summary and the end of the script.
UpdateCors ==
  /\ run.pc = "cors"
  /\ cloud' = [cloud EXCEPT !.cors = run.n]
  /\ run' = [run EXCEPT !.pc = "exited", !.status = 0]
  /\ UNCHANGED appVars

\* Runs of the deployment script, one after the other.
DeployNext ==
  \/ SaveRevisions
  \/ \E s \in Services : BuildFails(s)
  \/ \E s \in Services, kind \in RevisionKinds, routed \in BOOLEAN : Deploy(s, kind, routed)
  \/ \E s \in Services, responded \in BOOLEAN : HealthAttempt(s, responded)
  \/ \E s \in Services : HealthFailed(s)
  \/ \E s \in Services : HealthPassed(s)
  \/ UpdateCors

DeploySpec == Init /\ [][DeployNext]_vars

(* ----------------------------- fairness ------------------------------- *)
\* An extraction request settles, and an open alert is closed.
ExtractionSettles ==
  \/ \E i \in 1..Len(extractReqs), r \in Responses : ExtractionSucceeds(i, r)
  \/ \E i \in 1..Len(extractReqs) : ExtractionFails(i)

FairSpec == Spec /\ WF_vars(ExtractionSettles) /\ WF_vars(DismissAlert)

\* A scheduled timer fires, and an open alert is closed.
FairSaveSpec == SaveSpec /\ WF_vars(TimerFires) /\ WF_vars(DismissAlert)

\* the awaited axios.post of some save request settles
SaveRequestSettles == \E i \in 1..Len(saveReqs) : SaveSucceeds(i) \/ SaveFails(i)

\* Saves under the assumptions that a sent save request settles, that every
\* scheduled timer fires and that an open alert is closed.
FairSettleSpec ==
  /\ SaveSpec
  /\ WF_vars(SaveRequestSettles)
  /\ WF_vars(TimerFires)
  /\ WF_vars(OrphanTimerFires)
  /\ WF_vars(DismissAlert)

(* ------------------------------ claims -------------------------------- *)
\* What the claims say of a selection, spelled out on the characters of the names.
NamesPdf(sel) ==
  \E i \in 1..Len(sel) :
    LET n == Len(sel[i]) IN
    /\ n >= 4
    /\ sel[i][n - 3] = "."
    /\ sel[i][n - 2] \in {"p", "P"}
    /\ sel[i][n - 1] \in {"d", "D"}
    /\ sel[i][n] \in {"f", "F"}

NamesSheet(sel) ==
  \E i \in 1..Len(sel) :
    LET n == Len(sel[i]) IN
    \/ /\ n >= 4
       /\ sel[i][n - 3] = "."
       /\ sel[i][n - 2] \in {"x", "X"}
       /\ sel[i][n - 1] \in {"l", "L"}
       /\ sel[i][n] \in {"s", "S"}
    \/ /\ n >= 5
       /\ sel[i][n - 4] = "."
       /\ sel[i][n - 3] \in {"x", "X"}
       /\ sel[i][n - 2] \in {"l", "L"}
       /\ sel[i][n - 1] \in {"s", "S"}
       /\ sel[i][n] \in {"x", "X"}

\* C1: a selection handed to handleFilesSelected by a drop or a picker change
\* that has no PDF name or no spreadsheet name opens the validation alert, sends
\* no extraction request and leaves files, activeFileIndex, data and isLoading
\* as they were.
C1_RejectedSelection ==
  [][ \A sel \in Selections :
        ((handleDrop(sel) \/ handleChange(sel)) /\ (~NamesPdf(sel) \/ ~NamesSheet(sel)))
          => /\ alert' = ValidationAlert
             /\ extractReqs' = extractReqs
             /\ UNCHANGED <<files, activeFileIndex, data, isLoading>> ]_vars

\* C1 witness: a rejection after an earlier extraction had filled the record.
C1_Witness == alert = ValidationAlert /\ data # NullData /\ files = <<>> /\ ~isLoading

\* C2: a selection with a PDF and a spreadsheet replaces the file list, sets
\* isLoading in the step that sends the one extraction request, and isLoading
\* is false again once the request has settled (and the failure alert closed).
C2_AcceptedSelection ==
  /\ [][ \A sel \in Selections :
           ((handleDrop(sel) \/ handleChange(sel)) /\ NamesPdf(sel) /\ NamesSheet(sel))
             => /\ files' = sel
                /\ isLoading' = TRUE
                /\ Len(extractReqs') = Len(extractReqs) + 1
                /\ extractReqs'[Len(extractReqs')].files = sel ]_vars
  /\ (isLoading ~> ~isLoading)

\* C2 witness: the request of an accepted three-file selection is unsettled.
C2_Witness == isLoading /\ Len(files) = 3 /\ Len(extractReqs) = 1 /\ extractReqs[1].files = files

\* C3: at most one extraction request is unsettled at any time; while isLoading
\* no step adds a request, and a request leaves only by settling.
C3_OneExtraction ==
  /\ [](Len(extractReqs) <= 1)
  /\ [][ /\ isLoading => Len(extractReqs') <= Len(extractReqs)
         /\ Len(extractReqs') < Len(extractReqs)
              => (data' # NullData \/ alert' = ExtractionAlert) ]_vars

\* C3 witness: one request is unsettled and the user has meanwhile switched the
\* preview to the second file.
C3_Witness == isLoading /\ Len(extractReqs) = 1 /\ activeFileIndex = 1 /\ alert = "none"

\* C4: whenever files is non-empty, activeFileIndex is an index into it.
C4_IndexValid == Len(files) > 0 => (0 <= activeFileIndex /\ activeFileIndex < Len(files))

\* C5: while isLoading the record is null, and a form nobody typed into shows
\* nothing: no value of an earlier extraction is on display during loading.
C5_NoStaleRecord ==
  isLoading => (data = NullData /\ (nEdits = 0 => form = EmptyForm))

\* C5 witness: loading a new file set after the record of an earlier extraction
\* had been on display (its bill of lading number named a download).
C5_Witness ==
  isLoading /\ data = NullData /\ form = EmptyForm /\ download = "shipment_data_BOL123.json"

\* C6: a step that makes another file the active one leaves the page number at
\* 1, the page count at 0 and no parsed rows; the object URL is none, or the one
\* just created for the new file, whose load has only started.
C6_SwitchResets ==
  [][ activeFile' # activeFile
        => /\ pageNumber' = 1
           /\ numPages' = 0
           /\ excelData' = NullRows
           /\ fileUrl' # NullUrl => (docLoading' = fileUrl' /\ cleanup' = fileUrl') ]_vars

\* C6 witness: the preview was switched to a later file, a spreadsheet, while
\* the read of another spreadsheet was still running.
C6_Witness ==
  /\ activeFileIndex > 0 /\ activeFile # UNDEFINED /\ activeFile \in readers
  /\ Cardinality(readers) = 2
  /\ pageNumber = 1 /\ numPages = 0 /\ fileUrl = NullUrl /\ excelData = NullRows

\* C7 as stated: whenever the PDF preview is shown, 1 <= page <= page count.
C7_PageWithinCount == DocumentShown => (1 <= pageNumber /\ pageNumber <= numPages)

\* C7 amended: the page number is at least 1 and at most the page count once
\* the count is known (numPages > 0); until then it is 1.  The back control
\* cannot be used on page 1 nor the forward control on the last page.
C7_PageBounded ==
  /\ 1 <= pageNumber
  /\ numPages > 0 => pageNumber <= numPages
  /\ numPages = 0 => pageNumber = 1
  /\ pageNumber = 1 => ~ENABLED PrevPageClick
  /\ pageNumber = numPages => ~ENABLED NextPageClick

\* C7 witness: the last page of a PDF of several pages is on display.
C7_Witness == DocumentShown /\ numPages > 1 /\ pageNumber = numPages

\* C8: with a record present and nothing typed since it arrived, every field of
\* the form is the field of the record, the two averages included whatever the
\* totals and the count are; typing into the count or a total changes neither
\* average field.
C8_FormIsResponse ==
  /\ []((PanelsShown /\ data # NullData /\ nEdits = 0) => \A k \in Fields : form[k] = data[k])
  /\ [][ \A k \in {"line_items_count", "total_gross_weight", "total_invoice_amount"},
            v \in EditValues :
           EditField(k, v)
             => /\ form'["average_gross_weight"] = form["average_gross_weight"]
                /\ form'["average_price"] = form["average_price"] ]_vars

\* C8 witness: the form shows a response whose average weight, 50, is not
\* 400 / 4 and which has null fields.
C8_Witness ==
  /\ PanelsShown /\ data # NullData /\ nEdits = 0
  /\ form["average_gross_weight"] = "50" /\ form["total_gross_weight"] = "400"
  /\ form["line_items_count"] = "4" /\ form["average_price"] = NULL
  /\ form["bill_of_lading_number"] = NULL

\* The moves of Save Status the claim allows.
SaveMoves ==
  { <<"idle", "saving">>, <<"error", "saving">>, <<"saving", "success">>,
    <<"saving", "error">>, <<"success", "idle">>, <<"error", "idle">> }

\* C9: while the form stays mounted, Save Status changes only along SaveMoves.
C9_SaveMovesOnly ==
  [][ (PanelsShown /\ PanelsShown' /\ saveStatus' # saveStatus)
        => <<saveStatus, saveStatus'>> \in SaveMoves ]_vars

\* C10: the failure of a save request of the mounted form sets Save Status to
\* "error", opens no alert and leaves form, data, files and isLoading as they
\* were; Save Status "error" is followed by "idle".
C10_SaveFailure ==
  /\ [][ \A i \in 1..Len(saveReqs) :
           (SaveFails(i) /\ saveReqs[i].live)
             => /\ saveStatus' = "error"
                /\ alert = "none" /\ alert' = "none"
                /\ UNCHANGED <<form, data, files, isLoading>> ]_vars
  /\ (saveStatus = "error" ~> saveStatus = "idle")

\* C10 witness: a save of a populated form has failed.
C10_Witness ==
  /\ saveStatus = "error" /\ alert = "none" /\ timers > 0
  /\ data # NullData /\ form = data /\ PanelsShown

\* C11: the Save control is disabled in "saving" and "success" and usable in
\* "idle" and "error" (the form mounted and no alert open); a step that sends a
\* save request starts from "idle" or "error".
C11_SaveControl ==
  /\ [](saveStatus \in {"saving", "success"} => ~ENABLED handleSaveToBackend)
  /\ []((saveStatus \in {"idle", "error"} /\ PanelsShown /\ alert = "none"
           /\ Len(saveReqs) < MaxSaveReqs) => ENABLED handleSaveToBackend)
  /\ [][ Len(saveReqs') > Len(saveReqs) => saveStatus \in {"idle", "error"} ]_vars

\* C11 witness: the control is usable again after a failure whose timer is
\* still pending.
C11_Witness == saveStatus = "error" /\ timers = 1 /\ saveReqs = <<>> /\ PanelsShown

\* C12: a click on Save sets the status to "saving", and a status other than
\* "idle" is eventually followed by "idle", assuming the save request settles
\* and scheduled timers fire.
C12_BackToIdle ==
  /\ [][handleSaveToBackend => saveStatus' = "saving"]_vars
  /\ (saveStatus # "idle") ~> (saveStatus = "idle")

\* C12 witness: a save has succeeded and its reset timer is pending.
C12_Witness == saveStatus = "success" /\ timers = 1 /\ saveReqs = <<>> /\ PanelsShown

\* a step in which an extraction request ends without a record being set
ExtractionFailed == Len(extractReqs') < Len(extractReqs) /\ data' = NullData

\* C13: a failed extraction request opens the extraction alert, leaving the
\* record null and the files the submitted ones; while that alert is open
\* nothing else happens, and closing it leaves isLoading false, the record
\* null, the files unchanged and no request in flight.
C13_ExtractionFailure ==
  /\ [][ExtractionFailed =>
          /\ alert' = ExtractionAlert
          /\ files' = files
          /\ \E i \in 1..Len(extractReqs) : files = extractReqs[i].files
          /\ extractReqs' = <<>>]_vars
  /\ [][alert = ExtractionAlert =>
          /\ alert' = "none"
          /\ ~isLoading'
          /\ data' = NullData
          /\ files' = files
          /\ extractReqs' = <<>>]_vars

\* C13 witness: the failure alert was closed, the files are still shown, no
\* record, nothing loading, nothing in flight.
C13_Witness ==
  /\ PanelsShown
  /\ ~isLoading
  /\ data = NullData
  /\ alert = "none"
  /\ extractReqs = <<>>

\* C14: the record is null or one whole response body, and it changes only to
\* null or, in the step that ends an extraction request, to a response body;
\* editing the form never reaches it.
C14_RecordIsResponse ==
  /\ [](data = NullData \/ data \in Responses)
  /\ [][data' # data =>
          \/ data' = NullData
          \/ Len(extractReqs') < Len(extractReqs) /\ data' \in Responses]_vars

\* C14 witness: the record is the second response body while the form, edited
\* since, holds another value.
C14_Witness ==
  /\ PanelsShown
  /\ data = Response(NULL, "50", NULL)
  /\ form["bill_of_lading_number"] = "7"

\* C15: every extraction request in flight goes to the configured base origin
\* followed by /process-documents, and every save request to the base origin
\* followed by /save-shipment.
C15_TargetsFollowBase ==
  /\ \A i \in 1..Len(extractReqs) :
       extractReqs[i].url = [origin |-> baseURL, path |-> "/process-documents"]
  /\ \A i \in 1..Len(saveReqs) :
       saveReqs[i].url = [origin |-> baseURL, path |-> "/save-shipment"]

\* C17: at most one preview object URL is unreleased, and it is the one of the
\* PDF now shown; none is unreleased while no preview exists; when the active
\* file changes the URLs created before are released.
C17_UrlsReleased ==
  /\ [](Cardinality(objectUrls) <= 1)
  /\ [](objectUrls # {} => NamesPdf(<<activeFile>>) /\ objectUrls = {fileUrl})
  /\ [](Len(files) = 0 => objectUrls = {})
  /\ [][activeFile' # activeFile /\ ~NamesPdf(<<activeFile'>>) => objectUrls' = {}]_vars

\* C17 witness: the preview that showed the PDF first was torn down by Reset
\* (the record of that session is still held) and no URL is left.
C17_Witness ==
  /\ Len(files) = 0
  /\ data # NullData
  /\ activeFileIndex = 0
  /\ objectUrls = {}

\* C18: an export names its file shipment_data_<BOL>.json when the form's
\* bill_of_lading_number is a non-empty string and shipment_data_export.json
\* when it is null or empty; it adds no request and leaves the form values,
\* the save status, the record and isLoading as they are.
C18_Export ==
  [][handleDownload =>
       /\ LET bol == form["bill_of_lading_number"] IN
            \/ bol \in {NULL, EMPTY} /\ download' = "shipment_data_export.json"
            \/ bol = "BOL123" /\ download' = "shipment_data_BOL123.json"
            \/ bol = "7" /\ download' = "shipment_data_7.json"
       /\ UNCHANGED <<form, saveStatus, data, isLoading, extractReqs, saveReqs>>]_vars

\* C18 witness: the fallback name was produced after the user had emptied a
\* bill_of_lading_number the response had filled.
C18_Witness ==
  /\ download = "shipment_data_export.json"
  /\ data # NullData
  /\ data["bill_of_lading_number"] = "BOL123"
  /\ form["bill_of_lading_number"] = EMPTY

\* C19: a request is added only by the step of an accepted submission (one
\* extraction request) or of a click on Save (one save request), each of which
\* adds exactly one; the step that reports a failure takes its request away
\* and adds none.
C19_NoRetry ==
  [][ /\ Len(extractReqs') > Len(extractReqs) =>
           /\ Len(files) = 0 /\ Len(files') > 0 /\ ~isLoading /\ isLoading'
           /\ Len(extractReqs') = Len(extractReqs) + 1
      /\ Len(files) = 0 /\ Len(files') > 0 => Len(extractReqs') = Len(extractReqs) + 1
      /\ Len(saveReqs') > Len(saveReqs) =>
           /\ saveStatus # "saving" /\ saveStatus' = "saving"
           /\ Len(saveReqs') = Len(saveReqs) + 1
      /\ handleSaveToBackend => Len(saveReqs') = Len(saveReqs) + 1
      /\ alert # ExtractionAlert /\ alert' = ExtractionAlert =>
           /\ Len(extractReqs') = Len(extractReqs) - 1
           /\ Len(saveReqs') = Len(saveReqs)
      /\ saveStatus # "error" /\ saveStatus' = "error" =>
           /\ Len(saveReqs') = Len(saveReqs) - 1
           /\ Len(extractReqs') = Len(extractReqs)
    ]_vars

\* C19 witness: an extraction and then a save have failed and no request is in
\* flight.
C19_Witness ==
  /\ PanelsShown
  /\ data = NullData
  /\ ~isLoading
  /\ alert = "none"
  /\ saveStatus = "error"
  /\ extractReqs = <<>>
  /\ saveReqs = <<>>

\* C20: a read that completes while the preview is mounted puts its rows into
\* excelData whichever file is active by then, so a read started for a tab the
\* user has left overwrites the rows of the tab now shown.
C20_ReadPopulates ==
  [][\A f \in readers :
       f \notin readers' /\ Len(files') > 0 => excelData' = <<"rows", f>>]_vars

\* C20 witness: the active file is a spreadsheet and the table shown under its
\* tab holds the rows parsed from the other spreadsheet.
C20_Witness ==
  /\ TableShown
  /\ NamesSheet(<<activeFile>>)
  /\ excelData # NullRows
  /\ excelData # <<"rows", activeFile>>
  /\ \E i \in 1..Len(files) :
       /\ files[i] # activeFile
       /\ NamesSheet(<<files[i]>>)
       /\ excelData = <<"rows", files[i]>>

\* C21: the payload of the request a click on Save adds is the form as it is at
\* the click, and the content an export writes is the JSON text of the form as
\* it is at the click, whatever the values are; a step that changes the form
\* without ending an extraction request leaves the record as it is.
C21_CurrentValues ==
  [][ /\ Len(saveReqs') > Len(saveReqs) =>
           saveReqs'[Len(saveReqs')].payload = form
      /\ handleDownload =>
           /\ DOMAIN exported' = Fields
           /\ \A k \in Fields :
                exported'[k] = IF form[k] = NULL THEN "null" ELSE "\"" \o form[k] \o "\""
      /\ form' # form /\ extractReqs' = extractReqs => data' = data
    ]_vars

\* C21 witness: the user emptied the bill_of_lading_number the response had
\* filled, exported and clicked Save: the export and the request in flight
\* carry the empty value, the record still has the received one.
C21_Witness ==
  /\ data # NullData
  /\ data["bill_of_lading_number"] = "BOL123"
  /\ form["bill_of_lading_number"] = EMPTY
  /\ exported # <<>>
  /\ exported["bill_of_lading_number"] = "\"\""
  /\ Len(saveReqs) = 1
  /\ saveReqs[1].payload = form

\* C22: every extraction request in flight was issued for the current files and
\* the files do not change while one is in flight; the record becomes non-null
\* only by the response to a request issued for the files then shown, and a
\* non-null record outlives a change of the files only when they become empty.
C22_RecordOfCurrentFiles ==
  /\ [](\A i \in 1..Len(extractReqs) : extractReqs[i].files = files /\ Len(files) > 0)
  /\ [][extractReqs # <<>> => files' = files]_vars
  /\ [][data' # NullData /\ data' # data =>
          /\ files' = files
          /\ \E i \in 1..Len(extractReqs) :
               /\ extractReqs[i].files = files
               /\ Len(extractReqs') = Len(extractReqs) - 1]_vars
  /\ [][data' # NullData /\ files' # files => files' = <<>>]_vars

\* C22 witness: a second upload, of two files after one of three (the index of
\* the third tab is still held), has been answered.
C22_Witness ==
  /\ data # NullData
  /\ Len(files) = 2
  /\ activeFileIndex = 2
  /\ extractReqs = <<>>
  /\ ~isLoading

\* C23: the placeholder is rendered exactly when the active file has neither a
\* PDF nor a spreadsheet extension.
C23_PlaceholderOnlyUnknown ==
  PlaceholderShown <=>
    (TabsShown /\ ~NamesPdf(<<activeFile>>) /\ ~NamesSheet(<<activeFile>>))

\* C24: whenever files is non-empty the tab strip is rendered, exactly one of
\* its tabs (one per file) is the active one, and, no alert being open, every
\* tab can be clicked.
C24_TabStrip ==
  Len(files) > 0 =>
    /\ TabsShown
    /\ Cardinality({i \in 0..(Len(files) - 1) : i = activeFileIndex}) = 1
    /\ alert = "none" => \A i \in 0..(Len(files) - 1) : ENABLED TabClick(i)

\* C25: the step that removes the form cancels nothing: its pending timers and
\* unsettled save requests are all still pending afterwards; such a timer can
\* fire and such a request can settle while no form exists, and doing so
\* changes no state of the application.
C25_TimersOutliveForm ==
  /\ [][Len(files) > 0 /\ Len(files') = 0 =>
          /\ timers' + orphanTimers' = timers + orphanTimers
          /\ Len(saveReqs') = Len(saveReqs)]_vars
  /\ [](orphanTimers > 0 /\ alert = "none" => ENABLED OrphanTimerFires)
  /\ []((Len(files) = 0 /\ saveReqs # <<>> /\ alert = "none"
           /\ timers + orphanTimers < MaxTimers) => ENABLED SaveRequestSettles)
  /\ [][Len(files) = 0 /\ timers' + orphanTimers' # timers + orphanTimers =>
          /\ saveStatus' = saveStatus
          /\ UNCHANGED <<files, data, isLoading, form>>]_vars

\* C25 witness: no form exists, a timer of the removed one is pending and a
\* request it sent is unsettled.
C25_Witness ==
  /\ Len(files) = 0
  /\ orphanTimers > 0
  /\ Len(saveReqs) > 0

\* C26: when the health loop of a service has run out without an answer, the
\* script's next step ends it with status 1, having set that service's traffic
\* to the saved revision if there is one and changed nothing else in Cloud
\* Run; an ended script changes nothing; the frontend is deployed only after
\* the backend check passed, and ALLOWED_ORIGINS is set only after the
\* frontend check passed.
C26_RollbackOnFailure ==
  [][ /\ (run.pc = "health" /\ run.attempt = HealthAttempts /\ ~run.healthOk /\ run' # run) =>
           /\ run'.pc = "exited"
           /\ run'.status = 1
           /\ cloud'.traffic[run.svc] =
                IF run.previous[run.svc] # 0 THEN run.previous[run.svc]
                ELSE cloud.traffic[run.svc]
           /\ \A s \in Services \ {run.svc} : cloud'.traffic[s] = cloud.traffic[s]
           /\ cloud'.revisions = cloud.revisions
           /\ cloud'.cors = cloud.cors
      /\ run.pc = "exited" => cloud' = cloud
      /\ (run.svc = "backend" /\ run'.svc = "frontend") =>
           run.pc = "health" /\ run.healthOk
      /\ Len(cloud'.revisions["frontend"]) > Len(cloud.revisions["frontend"]) =>
           run.pc = "deploy" /\ run.svc = "frontend"
      /\ (run.pc # "cors" /\ run'.pc = "cors") =>
           run.pc = "health" /\ run.svc = "frontend" /\ run.healthOk
      /\ cloud'.cors # cloud.cors => run.pc = "cors"
    ]_vars

\* C26 witness: the second run ended with status 1 after ten unanswered
\* frontend checks; the frontend's traffic is on the saved revision and
\* ALLOWED_ORIGINS is still the one of the first run.
C26_Witness ==
  /\ run.n = 2
  /\ run.pc = "exited"
  /\ run.status = 1
  /\ run.svc = "frontend"
  /\ run.attempt = HealthAttempts
  /\ ~run.healthOk
  /\ run.previous["frontend"] # 0
  /\ cloud.pinned["frontend"]
  /\ cloud.traffic["frontend"] = run.previous["frontend"]
  /\ cloud.cors = 1

\* C27: the revision a rollback sets the traffic to is healthy and received the
\* traffic when the run began.
C27_RollbackTargetSound ==
  [][\A s \in Services :
       (HealthFailed(s) /\ run.previous[s] # 0) =>
         /\ cloud.revisions[s][run.previous[s]] = "healthy"
         /\ run.previous[s] = run.serving[s]]_vars

\* C28: at most one save request sent by the form now open is unsettled.
C28_OneSaveInFlight ==
  Cardinality({i \in 1..Len(saveReqs) : saveReqs[i].live}) <= 1

\* C29: the step that empties the files (Reset / New Upload) leaves the shell
\* in its initial state: no files, index 0, no record, not loading.
C29_ResetToInitial ==
  [][Len(files) > 0 /\ Len(files') = 0 =>
       /\ files' = <<>>
       /\ activeFileIndex' = 0
       /\ data' = NullData
       /\ isLoading' = FALSE]_vars

\* C30 as stated: isLoading exactly when an extraction request is unsettled,
\* and then the files are not empty.
C30_LoadingIffInFlight ==
  /\ isLoading <=> Len(extractReqs) > 0
  /\ isLoading => Len(files) > 0 /\ ~IntakeShown

\* C30: isLoading exactly when an extraction request is unsettled or the alert
\* of its failure is still open, and then the files are not empty and the
\* intake surface is not rendered.
C30_LoadingIffPending ==
  /\ isLoading <=> (Len(extractReqs) > 0 \/ alert = ExtractionAlert)
  /\ isLoading => Len(files) > 0 /\ ~IntakeShown

\* C30 witness: the request has failed, its alert is open and isLoading is
\* still true.
C30_Witness ==
  /\ isLoading
  /\ extractReqs = <<>>
  /\ alert = ExtractionAlert
  /\ Len(files) > 0

====
